---- MODULE Spec2Model ----
(***************************************************************************)
(* Model of src/tasks.ts of rls-vscode: the cargo task provider            *)
(* (detectCargoTasks, resolveCargoTask), the execution normaliser          *)
(* (createShellExecution) and the task launcher with its completion        *)
(* correlation (runRlsCommand, runTaskCommand).                            *)
(*                                                                         *)
(* JavaScript values are represented as follows.                           *)
(*   string      a tuple of one-character strings, "ab" is <<"a", "b">>    *)
(*   array       a tuple                                                   *)
(*   object      a record                                                  *)
(*   undefined   `undefined' where a string is expected, `undefinedArr'    *)
(*               where an array of strings is expected, `undefinedObj'     *)
(*               where an object is expected                               *)
(***************************************************************************)
EXTENDS Integers, Sequences, FiniteSets, TLC

(***************************************************************************)
(* Bounds of the model.                                                    *)
(***************************************************************************)
\* awaited submissions (calls of runTaskCommand) in one behaviour
MaxCalls == 2
\* tasks handed to tasks.executeTask in one behaviour
MaxRuns == 3
\* length of the argument lists given to the pure functions
MaxArgs == 2

(***************************************************************************)
(* JavaScript primitives.                                                  *)
(***************************************************************************)
undefined == <<"undefined">>
undefinedArr == <<undefined>>
undefinedObj == [undefined |-> TRUE]

SP == <<" ">>
STR_undefined == <<"u", "n", "d", "e", "f", "i", "n", "e", "d">>
STR_cargo == <<"c", "a", "r", "g", "o">>
STR_rustc == <<"$", "r", "u", "s", "t", "c">>
STR_shell == <<"s", "h", "e", "l", "l">>
STR_build == <<"b", "u", "i", "l", "d">>
STR_check == <<"c", "h", "e", "c", "k">>
STR_test == <<"t", "e", "s", "t">>
STR_clean == <<"c", "l", "e", "a", "n">>
STR_run == <<"r", "u", "n">>
STR_release == <<"-", "-", "r", "e", "l", "e", "a", "s", "e">>
STR_External == <<"E", "x", "t", "e", "r", "n", "a", "l", " ", "R", "L", "S", " ", "c", "o", "m", "m", "a", "n", "d">>

TASK_SOURCE == <<"R", "u", "s", "t">>
TASK_TYPE == <<"c", "a", "r", "g", "o">>

\* `${v}`: the string a template literal substitutes for v
toString(v) == IF v = undefined THEN STR_undefined ELSE v

\* a || b on strings: undefined and '' are falsy
Or(a, b) == IF a = undefined \/ a = <<>> THEN b ELSE a

\* a ?? b on arrays
Nullish(a, b) == IF a = undefinedArr THEN b ELSE a

\* Array.prototype.join
RECURSIVE join(_, _)
join(arr, sep) ==
  IF Len(arr) = 0 THEN <<>>
  ELSE IF Len(arr) = 1 THEN arr[1]
  ELSE arr[1] \o sep \o join(Tail(arr), sep)

\* Array.prototype.concat
concat(a, b) == a \o b

(***************************************************************************)
(* The classes of the host API this file constructs.                       *)
(***************************************************************************)
\* new ShellExecution(commandLine, options)
ShellExecutionLine(commandLine, options) ==
  [class |-> "ShellExecution", commandLine |-> commandLine,
   command |-> undefined, args |-> undefinedArr,
   cwd |-> options.cwd, env |-> options.env]

\* new ShellExecution(command, args, options): no command line is stored
ShellExecutionArgs(command, args, options) ==
  [class |-> "ShellExecution", commandLine |-> undefined,
   command |-> command, args |-> args,
   cwd |-> options.cwd, env |-> options.env]

\* new Task(definition, scope, name, source, execution, problemMatchers)
Task(definition, scope, name, source, execution, problemMatchers) ==
  [definition |-> definition, scope |-> scope, name |-> name,
   source |-> source, execution |-> execution,
   problemMatchers |-> Nullish(problemMatchers, <<>>),
   group |-> undefinedObj]

TaskGroup ==
  [Build |-> [id |-> "build"], Test |-> [id |-> "test"],
   Clean |-> [id |-> "clean"]]

(***************************************************************************)
(* createShellExecution                                                    *)
(***************************************************************************)
\* the fallback taken the wrong way round: `${binary || command} ...`
createShellExecutionPreferBinary(execution) ==
  LET cmdLine == toString(Or(execution.binary, execution.command))
                   \o SP \o join(execution.args, SP)
  IN  ShellExecutionLine(cmdLine, [cwd |-> execution.cwd, env |-> execution.env])

createShellExecution(execution) ==
  LET cmdLine == toString(Or(execution.command, execution.binary))
                   \o SP \o join(execution.args, SP)
  IN  ShellExecutionLine(cmdLine, [cwd |-> execution.cwd, env |-> execution.env])

(***************************************************************************)
(* resolveCargoTask                                                        *)
(***************************************************************************)
\* the test of definition.type left out
resolveCargoTaskAnyType(task, target) ==
  LET definition == task.definition IN
  IF definition.command # undefined /\ definition.command # <<>>
  THEN LET args == concat(<<definition.command>>, Nullish(definition.args, <<>>))
       IN  Task(definition, target, task.name, TASK_SOURCE,
                ShellExecutionArgs(STR_cargo, args, definition),
                Nullish(task.problemMatchers, <<STR_rustc>>))
  ELSE undefinedObj

\* definition.args left out of the arguments
resolveCargoTaskNoArgs(task, target) ==
  LET definition == task.definition IN
  IF definition.type = STR_cargo
       /\ definition.command # undefined /\ definition.command # <<>>
  THEN LET args == <<definition.command>>
       IN  Task(definition, target, task.name, TASK_SOURCE,
                ShellExecutionArgs(STR_cargo, args, definition),
                Nullish(task.problemMatchers, <<STR_rustc>>))
  ELSE undefinedObj

resolveCargoTask(task, target) ==
  LET definition == task.definition IN
  IF definition.type = STR_cargo
       /\ definition.command # undefined /\ definition.command # <<>>
  THEN LET args == concat(<<definition.command>>, Nullish(definition.args, <<>>))
       IN  Task(definition, target, task.name, TASK_SOURCE,
                ShellExecutionArgs(STR_cargo, args, definition),
                Nullish(task.problemMatchers, <<STR_rustc>>))
  ELSE undefinedObj

(***************************************************************************)
(* detectCargoTasks                                                        *)
(***************************************************************************)
\* check listed before build
CatalogEntriesSwapped ==
  << [command |-> STR_check, group |-> TaskGroup.Build],
     [command |-> STR_build, group |-> TaskGroup.Build],
     [command |-> STR_test, group |-> TaskGroup.Test],
     [command |-> STR_clean, group |-> TaskGroup.Clean],
     [command |-> STR_run, group |-> undefinedObj] >>

CatalogEntries ==
  << [command |-> STR_build, group |-> TaskGroup.Build],
     [command |-> STR_check, group |-> TaskGroup.Build],
     [command |-> STR_test, group |-> TaskGroup.Test],
     [command |-> STR_clean, group |-> TaskGroup.Clean],
     [command |-> STR_run, group |-> undefinedObj] >>

detectCargoTasks(target) ==
  LET described ==
        [i \in 1..Len(CatalogEntries) |->
          LET command == CatalogEntries[i].command IN
          [definition |-> [command |-> command, type |-> TASK_TYPE],
           label |-> STR_cargo \o SP \o command \o <<" ", "-", " ">> \o target.name,
           execution |-> createShellExecution(
                           [command |-> STR_cargo, binary |-> undefined,
                            args |-> <<command>>, cwd |-> target.uri.fsPath,
                            env |-> undefinedObj]),
           group |-> CatalogEntries[i].group,
           problemMatchers |-> <<STR_rustc>>]]
  IN  [i \in 1..Len(CatalogEntries) |->
        [Task(described[i].definition, target, described[i].label, TASK_SOURCE,
              described[i].execution, described[i].problemMatchers)
           EXCEPT !.group = described[i].group]]

(***************************************************************************)
(* The inputs of the model.                                                *)
(***************************************************************************)
FolderP == [name |-> <<"p">>, uri |-> [fsPath |-> <<"/", "p">>]]
FolderQ == [name |-> <<"q", " ", "q">>, uri |-> [fsPath |-> <<"/", "q", " ", "q">>]]
WorkspaceFolders == <<FolderP, FolderQ>>

EnvObj == [RUST_LOG |-> <<"1">>]

\* Execution requests the launcher is driven with
LaunchExecutions ==
  { [command |-> STR_cargo, binary |-> undefined, args |-> <<STR_build>>,
     cwd |-> undefined, env |-> undefinedObj],
    [command |-> undefined, binary |-> STR_cargo, args |-> <<STR_build>>,
     cwd |-> undefined, env |-> undefinedObj] }

\* the awaited submissions: a request and the folder given with it, if any
Submissions ==
  { <<e, IF e.command = undefined THEN FolderQ ELSE undefinedObj>> :
      e \in LaunchExecutions }

\* the entries of the catalog the host is asked to run: build, whose command
\* line is the one of the requests above, and check
ProvidedIndices == {i \in 1..Len(CatalogEntries) :
                      CatalogEntries[i].command \in {STR_build, STR_check}}

\* task definitions of tasks.json the host resolves and then runs
LaunchDefinitions ==
  [type : {STR_cargo}, command : {STR_build}, args : {undefinedArr},
   cwd : {undefined}, env : {undefinedObj}]

DisplayName == <<"s", "e", "t", "u", "p">>

(***************************************************************************)
(* The state of the launcher.                                              *)
(***************************************************************************)
VARIABLES
  calls,         \* calls[c]: the locals of the c-th call of runTaskCommand
  pc,            \* pc[c]: index of the next statement of the promise executor of call c
  promise,       \* promise[c]: "pending" or "fulfilled"
  resolveCount,  \* resolveCount[c]: how often resolve() of promise c was called
  fulfilledBy,   \* fulfilledBy[c]: id of the run whose end resolved promise c, 0 if none
  listeners,     \* the calls whose onDidEndTask listener is registered
  running,       \* the task executions the host is running
  ended,         \* the "task ended" events the host has fired, in order
  executed,      \* number of calls of tasks.executeTask
  call,          \* the pure function applied, with its arguments
  result         \* <<>> before the application, <<value>> after it

launcherVars ==
  <<calls, pc, promise, resolveCount, fulfilledBy, listeners, running, ended, executed>>
vars ==
  <<calls, pc, promise, resolveCount, fulfilledBy, listeners, running, ended,
    executed, call, result>>

NoCall == [fn |-> "none"]

LauncherInit ==
  /\ calls = <<>>
  /\ pc = <<>>
  /\ promise = <<>>
  /\ resolveCount = <<>>
  /\ fulfilledBy = <<>>
  /\ listeners = {}
  /\ running = {}
  /\ ended = <<>>
  /\ executed = 0

Init ==
  /\ LauncherInit
  /\ call = NoCall
  /\ result = <<>>

\* the task submitted before the listener is registered
PromiseExecutorSubmitFirst == <<"executeTask", "onDidEndTask">>

\* the statements of the promise executor of runTaskCommand, lines 184-197,
\* in program order
PromiseExecutor == <<"onDidEndTask", "executeTask">>

\* Every call has run its executor to the end.  The host runs one callback
\* at a time: no other handler starts while an executor is under way.
Settled == \A c \in 1..Len(calls) : pc[c] > Len(PromiseExecutor)

\* tasks.executeTask(task); owner is the awaited call that submits, 0 if none
executeTask(task, owner) ==
  /\ running' = running \cup {[id |-> executed + 1, task |-> task, owner |-> owner]}
  /\ executed' = executed + 1

\* tasks.onDidEndTask(listener) for the listener of call c
onDidEndTask(c) == listeners' = listeners \cup {c}

(***************************************************************************)
(* runTaskCommand, lines 164-184: builds the command line and the task     *)
(* and creates the promise, whose executor then runs statement by          *)
(* statement.                                                              *)
(***************************************************************************)
RunTaskCommand(execution, displayName, folder) ==
  /\ Settled
  /\ Len(calls) < MaxCalls
  /\ executed < MaxRuns
  /\ LET commandLine == toString(execution.command) \o SP \o join(execution.args, SP)
         scope == IF folder # undefinedObj THEN folder ELSE WorkspaceFolders[1]
         cwd == Or(execution.cwd,
                   IF folder # undefinedObj THEN folder.uri.fsPath ELSE undefined)
         task == Task([type |-> STR_shell], scope, displayName, TASK_SOURCE,
                      ShellExecutionLine(commandLine, [cwd |-> cwd, env |-> execution.env]),
                      undefinedArr)
     IN  /\ calls' = Append(calls,
                         [execution |-> execution, commandLine |-> commandLine,
                          task |-> task,
                          \* history: the promises fulfilled when this call is made
                          fulfilledBefore |->
                            {c \in 1..Len(calls) : promise[c] = "fulfilled"}])
         /\ promise' = Append(promise, "pending")
         /\ resolveCount' = Append(resolveCount, 0)
         /\ fulfilledBy' = Append(fulfilledBy, 0)
         /\ pc' = Append(pc, 1)
  /\ UNCHANGED <<listeners, running, ended, executed, call, result>>

(***************************************************************************)
(* The executor of the promise, lines 184-197: its statements in program   *)
(* order; pc[c] is the index of the next one.                              *)
(***************************************************************************)
ExecutorStep(c) ==
  /\ c \in 1..Len(calls)
  /\ pc[c] <= Len(PromiseExecutor)
  /\ \/ /\ PromiseExecutor[pc[c]] = "onDidEndTask"
        /\ onDidEndTask(c)
        /\ UNCHANGED <<running, executed>>
     \/ /\ PromiseExecutor[pc[c]] = "executeTask"
        /\ executeTask(calls[c].task, c)
        /\ UNCHANGED listeners
  /\ pc' = [pc EXCEPT ![c] = pc[c] + 1]
  /\ UNCHANGED <<calls, promise, resolveCount, fulfilledBy, ended, call, result>>

(***************************************************************************)
(* runRlsCommand                                                           *)
(***************************************************************************)
RunRlsCommand(folder, execution) ==
  /\ Settled
  /\ executed < MaxRuns
  /\ LET shellExecution == createShellExecution(execution)
         problemMatchers == <<STR_rustc>>
     IN  executeTask(Task([type |-> STR_shell], folder, STR_External, TASK_SOURCE,
                          shellExecution, problemMatchers), 0)
  /\ UNCHANGED <<calls, pc, promise, resolveCount, fulfilledBy, listeners, ended, call, result>>

(***************************************************************************)
(* The host runs a task the provider gave it: an entry of provideTasks,    *)
(* or a task of tasks.json completed by resolveTask.                       *)
(***************************************************************************)
RunProvidedTask(target, i) ==
  /\ Settled
  /\ executed < MaxRuns
  /\ executeTask(detectCargoTasks(target)[i], 0)
  /\ UNCHANGED <<calls, pc, promise, resolveCount, fulfilledBy, listeners, ended, call, result>>

RunResolvedTask(target, definition) ==
  /\ Settled
  /\ executed < MaxRuns
  /\ LET task == resolveCargoTask([definition |-> definition, name |-> <<"m", "y">>,
                                   problemMatchers |-> undefinedArr], target)
     IN  /\ task # undefinedObj
         /\ executeTask(task, 0)
  /\ UNCHANGED <<calls, pc, promise, resolveCount, fulfilledBy, listeners, ended, call, result>>

(***************************************************************************)
(* A task of another extension, which is no ShellExecution: the "task      *)
(* ended" event of the host is fired for every task.                       *)
(***************************************************************************)
RunForeignTask(target) ==
  /\ Settled
  /\ executed < MaxRuns
  /\ executeTask(Task([type |-> <<"n", "p", "m">>], target, <<"n", "p", "m">>,
                       <<"n", "p", "m">>,
                       [class |-> "ProcessExecution", process |-> <<"n", "p", "m">>],
                       undefinedArr), 0)
  /\ UNCHANGED <<calls, pc, promise, resolveCount, fulfilledBy, listeners, ended, call, result>>

(***************************************************************************)
(* The listener of runTaskCommand, lines 185-194, and the host's "task     *)
(* ended" event, which calls every registered listener.                    *)
(***************************************************************************)
\* the command line left out of the comparison
ListenerMatchesAnyShell(c, execution) ==
  execution.task.execution.class = "ShellExecution"

\* the command compared in place of the command line
ListenerMatchesCommand(c, execution) ==
  LET taskExecution == execution.task.execution IN
  /\ taskExecution.class = "ShellExecution"
  /\ taskExecution.command = calls[c].commandLine

\* the condition of lines 187-190 for the listener of call c
ListenerMatches(c, execution) ==
  LET taskExecution == execution.task.execution IN
  /\ taskExecution.class = "ShellExecution"
  /\ taskExecution.commandLine = calls[c].commandLine

\* disposable.dispose() forgotten
disposeForgotten(matched) == listeners

\* disposable.dispose() in the listeners that matched
dispose(matched) == listeners \ matched

TaskEnded(execution) ==
  /\ Settled
  /\ execution \in running
  /\ running' = running \ {execution}
  /\ ended' = Append(ended, execution)
  /\ LET matched == {c \in listeners : ListenerMatches(c, execution)}
     IN  /\ listeners' = dispose(matched)
         /\ promise' = [c \in 1..Len(calls) |->
                          IF c \in matched THEN "fulfilled" ELSE promise[c]]
         /\ resolveCount' = [c \in 1..Len(calls) |->
                          IF c \in matched THEN resolveCount[c] + 1 ELSE resolveCount[c]]
         /\ fulfilledBy' = [c \in 1..Len(calls) |->
                          IF c \in matched /\ promise[c] = "pending"
                          THEN execution.id ELSE fulfilledBy[c]]
  /\ UNCHANGED <<calls, pc, executed, call, result>>

Next ==
  \/ \E submission \in Submissions :
       RunTaskCommand(submission[1], DisplayName, submission[2])
  \/ \E c \in 1..MaxCalls : ExecutorStep(c)
  \/ \E execution \in LaunchExecutions : RunRlsCommand(FolderP, execution)
  \/ \E i \in ProvidedIndices : RunProvidedTask(FolderP, i)
  \/ \E definition \in LaunchDefinitions : RunResolvedTask(FolderP, definition)
  \/ RunForeignTask(FolderP)
  \/ \E execution \in running : TaskEnded(execution)

Spec == Init /\ [][Next]_vars

\* The executor of a promise runs to its end, and the host fires the "task
\* ended" event of every task it runs.
Fairness ==
  /\ \A c \in 1..MaxCalls : WF_vars(ExecutorStep(c))
  /\ \A id \in 1..MaxRuns :
       WF_vars(\E execution \in running : execution.id = id /\ TaskEnded(execution))

LiveSpec == Spec /\ Fairness

(***************************************************************************)
(* The pure functions applied to inputs drawn from bounded sets.           *)
(***************************************************************************)
MaxApply == 2

ArgStrings == {<<>>, <<"x">>, <<"a", " ", "b">>, STR_release}

RECURSIVE ArgListsOfLen(_)
ArgListsOfLen(n) ==
  IF n = 0 THEN {<<>>}
  ELSE {Append(l, a) : l \in ArgListsOfLen(n - 1), a \in ArgStrings}

ArgLists == UNION {ArgListsOfLen(n) : n \in 0..MaxArgs}

Executions ==
  [command : {undefined, <<>>, <<"a">>, STR_cargo},
   binary : {undefined, <<>>, <<"b">>},
   args : ArgLists,
   cwd : {undefined, <<"/", "p">>},
   env : {undefinedObj, EnvObj}]

Definitions ==
  [type : {STR_cargo, STR_shell, <<"C", "a", "r", "g", "o">>},
   command : {undefined, <<>>, STR_build, <<"x">>},
   args : {undefinedArr} \cup {l \in ArgLists : Len(l) <= 1},
   cwd : {undefined, <<"/", "p">>},
   env : {undefinedObj, EnvObj}]

UserTasks ==
  [definition : Definitions, name : {<<"m", "y">>},
   problemMatchers : {undefinedArr, <<>>, << <<"$", "t", "s", "c">> >>}]

FnCalls ==
  [fn : {"createShellExecution"}, execution : Executions]
    \cup [fn : {"resolveCargoTask"}, task : UserTasks, target : {FolderP}]
    \cup [fn : {"detectCargoTasks"}, target : {FolderP, FolderQ}]

FnInit ==
  /\ LauncherInit
  /\ call \in FnCalls
  /\ result = <<>>

CallCreateShellExecution ==
  /\ call.fn = "createShellExecution"
  /\ Len(result) < MaxApply
  /\ result' = Append(result, createShellExecution(call.execution))
  /\ UNCHANGED <<launcherVars, call>>

CallResolveCargoTask ==
  /\ call.fn = "resolveCargoTask"
  /\ Len(result) < MaxApply
  /\ result' = Append(result, resolveCargoTask(call.task, call.target))
  /\ UNCHANGED <<launcherVars, call>>

CallDetectCargoTasks ==
  /\ call.fn = "detectCargoTasks"
  /\ Len(result) < MaxApply
  /\ result' = Append(result, detectCargoTasks(call.target))
  /\ UNCHANGED <<launcherVars, call>>

FnNext ==
  \/ CallCreateShellExecution
  \/ CallResolveCargoTask
  \/ CallDetectCargoTasks

FnSpec == FnInit /\ [][FnNext]_vars

(***************************************************************************)
(* Properties of the pure functions, checked under FnSpec.                 *)
(***************************************************************************)
StartsWith(s, prefix) ==
  Len(prefix) <= Len(s) /\ SubSeq(s, 1, Len(prefix)) = prefix

EndsWith(s, suffix) ==
  Len(suffix) <= Len(s) /\ SubSeq(s, Len(s) - Len(suffix) + 1, Len(s)) = suffix

\* the arguments written one after the other, a single space between two
RECURSIVE SpaceSeparated(_)
SpaceSeparated(args) ==
  IF args = <<>> THEN <<>>
  ELSE IF Len(args) = 1 THEN args[1]
  ELSE args[1] \o <<" ">> \o SpaceSeparated(Tail(args))

\* line is program, one space, and the arguments space separated
IsCommandLine(line, program, args) ==
  /\ StartsWith(line, program \o <<" ">>)
  /\ EndsWith(line, SpaceSeparated(args))
  /\ Len(line) = Len(program) + 1 + Len(SpaceSeparated(args))

Applied(fn) == call.fn = fn /\ Len(result) > 0

\* C9 as stated: createShellExecution builds the command line from `command`
\* whenever `command` is set (binary is then ignored) and from `binary` when
\* only `binary` is set, followed by the arguments joined by single spaces
\* verbatim; cwd and env pass through unchanged.
C9_AsStated ==
  Applied("createShellExecution") =>
    \A k \in 1..Len(result) :
      LET execution == call.execution
          shell == result[k]
      IN  /\ execution.command # undefined =>
               /\ IsCommandLine(shell.commandLine, execution.command, execution.args)
               /\ shell = createShellExecution([execution EXCEPT !.binary = undefined])
          /\ (execution.command = undefined /\ execution.binary # undefined) =>
               IsCommandLine(shell.commandLine, execution.binary, execution.args)
          /\ EndsWith(shell.commandLine, SpaceSeparated(execution.args))
          /\ shell.cwd = execution.cwd
          /\ shell.env = execution.env

\* C9 as amended: the program is `command` whenever `command` is set and not
\* empty, and `binary` when `command` is absent or empty and `binary` is set;
\* the command line is the program, a space and the arguments joined by
\* single spaces verbatim; cwd and env pass through unchanged.
C9_Normalizer ==
  Applied("createShellExecution") =>
    \A k \in 1..Len(result) :
      LET execution == call.execution
          shell == result[k]
          commandSet == execution.command # undefined /\ execution.command # <<>>
      IN  /\ commandSet =>
               /\ IsCommandLine(shell.commandLine, execution.command, execution.args)
               /\ shell = createShellExecution([execution EXCEPT !.binary = undefined])
          /\ (~commandSet /\ execution.binary # undefined) =>
               IsCommandLine(shell.commandLine, execution.binary, execution.args)
          /\ EndsWith(shell.commandLine, SpaceSeparated(execution.args))
          /\ shell.class = "ShellExecution"
          /\ shell.cwd = execution.cwd
          /\ shell.env = execution.env

\* command and binary both set, two arguments, one of them holding a space
C9_Witness ==
  /\ Applied("createShellExecution")
  /\ call.execution.command = <<"a">>
  /\ call.execution.binary = <<"b">>
  /\ call.execution.args = << <<"a", " ", "b">>, STR_release >>
  /\ call.execution.cwd = <<"/", "p">>
  /\ call.execution.env = EnvObj
  /\ result[1].commandLine =
       <<"a", " ", "a", " ", "b", " ", "-", "-", "r", "e", "l", "e", "a", "s", "e">>

\* the definition the resolver was applied to can be resolved
Resolvable(definition) ==
  /\ definition.type = <<"c", "a", "r", "g", "o">>
  /\ definition.command # undefined
  /\ Len(definition.command) > 0

\* C6: resolveCargoTask returns undefined for every definition whose type is
\* not 'cargo' and for every definition of type 'cargo' whose command is
\* absent or empty, and a task for every other definition.
C6_Resolver ==
  Applied("resolveCargoTask") =>
    \A k \in 1..Len(result) :
      LET definition == call.task.definition IN
      /\ definition.type # <<"c", "a", "r", "g", "o">> => result[k] = undefinedObj
      /\ (definition.command = undefined \/ definition.command = <<>>) =>
           result[k] = undefinedObj
      /\ Resolvable(definition) =>
           /\ result[k] # undefinedObj
           /\ result[k].definition = definition
           /\ result[k].name = call.task.name
           /\ result[k].scope = call.target

\* a definition of another type, with a command and arguments, is declined
C6_Witness ==
  /\ Applied("resolveCargoTask")
  /\ call.task.definition.type = STR_shell
  /\ call.task.definition.command = STR_build
  /\ call.task.definition.args = <<STR_release>>
  /\ result[1] = undefinedObj

\* the arguments the resolver is to pass: command, then args if there are any
ExpectedArgs(definition) ==
  <<definition.command>> \o
    (IF definition.args = undefinedArr THEN <<>> ELSE definition.args)

C8_Catalog ==
  Applied("detectCargoTasks") =>
    LET subcommands == <<STR_build, STR_check, STR_test, STR_clean, STR_run>>
        groups == <<[id |-> "build"], [id |-> "build"], [id |-> "test"],
                    [id |-> "clean"], undefinedObj>>
    IN  /\ \A k \in 1..Len(result) :
             /\ Len(result[k]) = 5
             /\ \A i \in 1..5 :
                  LET task == result[k][i] IN
                  /\ task.name = <<"c", "a", "r", "g", "o", " ">> \o subcommands[i]
                                   \o <<" ", "-", " ">> \o call.target.name
                  /\ task.execution.class = "ShellExecution"
                  /\ task.execution.commandLine =
                       <<"c", "a", "r", "g", "o", " ">> \o subcommands[i]
                  /\ task.execution.cwd = call.target.uri.fsPath
                  /\ task.problemMatchers = << <<"$", "r", "u", "s", "t", "c">> >>
                  /\ task.group = groups[i]
                  /\ task.scope = call.target
                  /\ task.source = <<"R", "u", "s", "t">>
        /\ \A k \in 1..Len(result) : result[k] = result[1]

\* the catalog was asked for twice for the root named "q q"
C8_Witness ==
  /\ Applied("detectCargoTasks")
  /\ call.target = FolderQ
  /\ Len(result) = 2
  /\ result[2][4].name =
       <<"c", "a", "r", "g", "o", " ", "c", "l", "e", "a", "n", " ", "-", " ", "q", " ", "q">>
  /\ result[2][5].group = undefinedObj

(***************************************************************************)
(* Properties of the launcher, checked under Spec and LiveSpec.            *)
(***************************************************************************)
Calls == 1..Len(calls)

\* the command line a "task ended" event carries, undefined if it has none
EventLine(execution) ==
  IF execution.task.execution.class = "ShellExecution"
  THEN execution.task.execution.commandLine
  ELSE undefined

\* the events fired so far
Ended == {ended[k] : k \in 1..Len(ended)}

\* the step fires a "task ended" event
Notified == Len(ended') = Len(ended) + 1

\* the tasks handed to the host, running or ended
Started == running \cup Ended

\* C1 as stated: the promise of an awaited submission is never fulfilled
\* before the "task ended" event of the run this submission started.
C1_AsStated ==
  \A c \in Calls :
    promise[c] = "fulfilled" => \E execution \in Ended : execution.owner = c

\* C1 as amended: the promise is never fulfilled before a "task ended" event
\* carrying exactly its command line was fired while its listener was
\* registered; that event is the one of its own run unless another task with
\* the same command line was started.
C1_FulfilledByMatchingEnd ==
  \A c \in Calls :
    promise[c] = "fulfilled" =>
      \E execution \in Ended :
        /\ execution.id = fulfilledBy[c]
        /\ EventLine(execution) = calls[c].commandLine
        /\ (\A other \in Started :
              other.owner # c => EventLine(other) # calls[c].commandLine)
             => execution.owner = c

\* a promise fulfilled by the end of its own run while a task with another
\* command line still runs
C1_Witness ==
  \E c \in Calls :
    /\ promise[c] = "fulfilled"
    /\ \E execution \in Ended : execution.owner = c /\ execution.id = fulfilledBy[c]
    /\ \E other \in running :
         other.owner = 0 /\ EventLine(other) \notin {undefined, calls[c].commandLine}

\* C2: whenever the task of an awaited submission has been handed to the
\* host, the listener of this submission is registered, or was until its
\* promise was fulfilled; no end of its run finds the promise pending.
C2_ListenerBeforeSubmit ==
  \A c \in Calls :
    /\ (\E execution \in Started : execution.owner = c) =>
         (c \in listeners \/ promise[c] = "fulfilled")
    /\ (\E execution \in Ended : execution.owner = c) => promise[c] = "fulfilled"

\* the task of an awaited submission runs, its promise pending
C2_Witness ==
  \E c \in Calls :
    /\ \E execution \in running : execution.owner = c
    /\ c \in listeners
    /\ promise[c] = "pending"

\* C3: at a "task ended" event whose command line equals the key of a
\* registered listener, the listener is deregistered and its promise
\* fulfilled in that step; a promise is resolved at most once; at every other
\* step a registered listener stays registered and its promise pending.
C3_OneShotListener ==
  /\ [](\A c \in Calls : resolveCount[c] <= 1)
  /\ [][\A c \in listeners :
          IF Notified /\ EventLine(ended'[Len(ended')]) = calls[c].commandLine
          THEN /\ c \notin listeners'
               /\ promise[c] = "pending"
               /\ promise'[c] = "fulfilled"
               /\ resolveCount'[c] = 1
          ELSE /\ c \in listeners'
               /\ promise'[c] = promise[c]
               /\ resolveCount'[c] = resolveCount[c]]_vars

\* a promise resolved once although two events carried its command line
C3_Witness ==
  \E c \in Calls :
    /\ promise[c] = "fulfilled"
    /\ resolveCount[c] = 1
    /\ c \notin listeners
    /\ Len(ended) = 2
    /\ EventLine(ended[1]) = calls[c].commandLine
    /\ EventLine(ended[2]) = calls[c].commandLine

\* C4: of two awaited submissions with different command lines, the second
\* made after the promise of the first was fulfilled, each promise is
\* fulfilled by an event carrying its own command line and not by the event
\* of the run of the other.
C4_SequentialDistinct ==
  \A c, d \in Calls :
    (c \in calls[d].fulfilledBefore /\ calls[c].commandLine # calls[d].commandLine) =>
      /\ \A execution \in Ended :
           execution.id = fulfilledBy[c] =>
             EventLine(execution) = calls[c].commandLine /\ execution.owner # d
      /\ promise[d] = "fulfilled" =>
           \E execution \in Ended :
             /\ execution.id = fulfilledBy[d]
             /\ EventLine(execution) = calls[d].commandLine
             /\ execution.owner # c

\* two sequential submissions with different command lines, both fulfilled,
\* each by the end of its own run
C4_Witness ==
  /\ Len(calls) = 2
  /\ 1 \in calls[2].fulfilledBefore
  /\ calls[1].commandLine # calls[2].commandLine
  /\ promise[2] = "fulfilled"
  /\ Len(ended) = 2
  /\ ended[1].owner = 1 /\ fulfilledBy[1] = ended[1].id
  /\ ended[2].owner = 2 /\ fulfilledBy[2] = ended[2].id

\* C5: the key and the executed command line of an awaited submission are
\* the command line createShellExecution builds for the same request.
C5_KeyIsNormalized ==
  \A c \in Calls :
    /\ calls[c].commandLine = createShellExecution(calls[c].execution).commandLine
    /\ calls[c].task.execution.commandLine =
         createShellExecution(calls[c].execution).commandLine

\* C10: if the host fires the "task ended" event of every task it runs,
\* the promise of every awaited submission is eventually fulfilled and its
\* listener deregistered; and at a step that fires no event with its command
\* line, a pending promise stays pending and its listener registered.
C10_EventuallyFulfilled ==
  /\ \A c \in 1..MaxCalls :
       (c \in Calls) ~> (c \in Calls /\ promise[c] = "fulfilled" /\ c \notin listeners)
  /\ [][\A c \in listeners :
          ~(Notified /\ EventLine(ended'[Len(ended')]) = calls[c].commandLine) =>
            (promise[c] = "pending" /\ promise'[c] = "pending" /\ c \in listeners')]_vars

\* two awaited submissions with the same command line, both fulfilled
C10_Witness ==
  /\ Len(calls) = 2
  /\ calls[1].commandLine = calls[2].commandLine
  /\ promise[1] = "fulfilled" /\ promise[2] = "fulfilled"
  /\ listeners = {}
  /\ running = {}

====
